---- MODULE Spec2Model ----
(***************************************************************************)
(* Model of mag_annotator/summarize_genomes.py (DRAM): the module graph    *)
(* builder, the module coverage engine, the per-genome coverage join, the  *)
(* rRNA summary rows and the control flow of summarize_genomes.            *)
(***************************************************************************)
EXTENDS Integers, Sequences, FiniteSets, TLC

VARIABLES
    module_df,      \* rows of the module-step catalog for one module: [path, ko]
    module_net,     \* the shared nx.DiGraph built from module_df (NoNet before it is built)
    kos,            \* the observed identifier set of the last get_module_coverage call
    result,         \* the outcome of the last get_module_coverage call
    annotation_df,  \* one genome's annotation rows: the kegg_id field of each gene, in index order
    coverage_df,    \* the row make_module_coverage_df emitted for the module
    pc,             \* summarize_genomes: the statement about to run
    viral,          \* summarize_genomes: the viral argument
    trna_path,      \* summarize_genomes: the trna_path argument ("None" or a path)
    rrna_path,      \* summarize_genomes: the rrna_path argument ("None" or a path)
    database_locs,  \* the catalog locations that are configured (what get_database_locs returns)
    db_locs,        \* summarize_genomes: the local db_locs
    files_read,     \* files read so far
    outputs,        \* directories and files created so far
    exc,            \* the exception summarize_genomes raised ("none" while it runs)
    genome_summary, \* the call of make_genome_summary and the table it wrote
    rrnas_df,       \* rows of the rRNA table: [fasta, type]
    rrna_frame      \* the frame summarize_rrnas returned

netVars == <<module_df, module_net, kos, result, annotation_df, coverage_df>>
runVars == <<pc, viral, trna_path, rrna_path, database_locs, db_locs, files_read, outputs, exc,
             genome_summary>>
rrnaVars == <<rrnas_df, rrna_frame>>
vars == <<netVars, runVars, rrnaVars>>

-----------------------------------------------------------------------------
(* Bounds of the model *)

MaxStep == 3        \* largest step index of a path descriptor
MaxRows == 3        \* largest number of rows of a freely chosen module_df
NumGenes == 2       \* genes of the genome handed to make_module_coverage_df
MaxKosPerGene == 2  \* identifiers listed in one gene's kegg_id field

Ids == {"A", "B", "C", "D"}          \* pathway identifiers (KOs)
FreeIds == {"A", "B"}                \* identifiers used by the freely chosen module_df rows
AltSuffixes == {<<>>, <<1>>}         \* "s" and "s,1": two alternative paths of one step
GeneNames == <<"g1", "g2", "g3", "g4">>
StringOrder == <<"A", "B", "C", "D", "g1", "g2", "g3", "g4">>  \* Python's str ordering on the names used

-----------------------------------------------------------------------------
(* Python values *)

PyStr(s) == [type |-> "str", val |-> s]
PyInt(i) == [type |-> "int", val |-> i]

\* Python's ==: values of different types never compare equal
PyEq(x, y) == x.type = y.type /\ x.val = y.val

Digits == <<"0", "1", "2", "3", "4", "5", "6", "7", "8", "9">>

RECURSIVE LeadingDigit(_)
LeadingDigit(n) == IF n < 10 THEN Digits[n + 1] ELSE LeadingDigit(n \div 10)

\* module_path[0]: the first character of the descriptor string "s,a,..."
FirstChar(p) == PyStr(LeadingDigit(p[1]))

\* split_path[0] = int(module_path.split(',')[0])
StepIndex(p) == p[1]

SetMax(S) == CHOOSE m \in S : \A x \in S : x <= m

Rank(s) == CHOOSE i \in 1..Len(StringOrder) : StringOrder[i] = s

RECURSIVE Insert(_, _)
Insert(sorted_seq, x) ==
    IF sorted_seq = <<>> THEN <<x>>
    ELSE IF Rank(x) < Rank(Head(sorted_seq)) THEN <<x>> \o sorted_seq
    ELSE <<Head(sorted_seq)>> \o Insert(Tail(sorted_seq), x)

\* sorted(list): keeps duplicates
RECURSIVE SortedList(_)
SortedList(s) == IF s = <<>> THEN <<>> ELSE Insert(SortedList(Tail(s)), Head(s))

\* sorted(set)
RECURSIVE SortedSet(_)
SortedSet(S) ==
    IF S = {} THEN <<>>
    ELSE LET m == CHOOSE x \in S : \A y \in S : Rank(x) <= Rank(y)
         IN <<m>> \o SortedSet(S \ {m})

RECURSIVE Gcd(_, _)
Gcd(a, b) == IF b = 0 THEN a ELSE Gcd(b, a % b)

\* a / b for b # 0, as the rational it denotes (reduced)
TrueDiv(a, b) == LET g == IF a = 0 THEN b ELSE Gcd(a, b)
                 IN [num |-> a \div g, den |-> b \div g]

FracGeq(x, y) == x.num * y.den >= y.num * x.den

Returned(v) == [exc |-> "none", ret |-> v]
Raised(e) == [exc |-> e, ret |-> <<>>]
NoResult == [exc |-> "no call", ret |-> <<>>]

-----------------------------------------------------------------------------
(* networkx.DiGraph *)

Begin == [name |-> "begin", arg |-> <<>>]
End == [name |-> "end", arg |-> <<>>]
EndStep(k) == [name |-> "end_step", arg |-> <<k>>]     \* 'end_step_%s' % k
PathNode(p) == [name |-> "path", arg |-> p]            \* the descriptor string itself

\* nx.DiGraph(num_steps=...)
DiGraph(num_steps) == [nodes |-> {}, edges |-> {}, kos |-> <<>>, num_steps |-> num_steps]

NoNet == DiGraph(-1)

add_node(G, n, node_kos) ==
    [G EXCEPT !.nodes = @ \cup {n},
              !.kos = [m \in DOMAIN G.kos \cup {n} |-> IF m = n THEN node_kos ELSE G.kos[m]]]

add_edge(G, u, v) == [G EXCEPT !.nodes = @ \cup {u, v}, !.edges = @ \cup {<<u, v>>}]

remove_node(G, n) ==
    [G EXCEPT !.nodes = @ \ {n},
              !.edges = {e \in @ : e[1] # n /\ e[2] # n},
              !.kos = [m \in DOMAIN G.kos \ {n} |-> G.kos[m]]]

in_degree(G, n) == Cardinality({e \in G.edges : e[2] = n})
out_degree(G, n) == Cardinality({e \in G.edges : e[1] = n})

-----------------------------------------------------------------------------
(* build_module_net *)

Paths(df) == {r.path : r \in df}

\* the body of the loop over module_df.groupby('path') for one descriptor
AddPath(G, df, p, num_steps) ==
    LET g1 == add_node(G, PathNode(p), {r.ko : r \in {x \in df : x.path = p}})
        g2 == IF PyEq(FirstChar(p), PyInt(0))
              THEN add_edge(g1, Begin, PathNode(p))
              ELSE add_edge(g1, EndStep(StepIndex(p) - 1), PathNode(p))
    IN IF StepIndex(p) = num_steps
       THEN add_edge(g2, PathNode(p), End)
       ELSE add_edge(g2, PathNode(p), EndStep(StepIndex(p)))

RECURSIVE AddPaths(_, _, _, _)
AddPaths(G, df, todo, num_steps) ==
    IF todo = {} THEN G
    ELSE LET p == CHOOSE q \in todo : TRUE
         IN AddPaths(AddPath(G, df, p, num_steps), df, todo \ {p}, num_steps)

build_module_net(df) ==
    LET num_steps == SetMax({StepIndex(p) : p \in Paths(df)})
    IN AddPaths(DiGraph(num_steps), df, Paths(df), num_steps)

-----------------------------------------------------------------------------
(* get_module_coverage *)

\* Graph objects live on a heap of references; ref 1 is the shared module_net.
SharedRef == 1

copy_alias(heap, ref) == [heap |-> heap, ref |-> ref]

\* module_net.copy(): a new graph object with the same nodes, edges and data
copy(heap, ref) == [heap |-> Append(heap, heap[ref]), ref |-> Len(heap) + 1]

prune_inverted(G, node, observed) == G.kos[node] \cap observed # {}

\* len(ko_overlap) == 0: the path node is removed from the pruned copy
prune(G, node, observed) == G.kos[node] \cap observed = {}

RECURSIVE RemoveAll(_, _)
RemoveAll(G, todo) ==
    IF todo = {} THEN G
    ELSE LET n == CHOOSE m \in todo : TRUE IN RemoveAll(remove_node(G, n), todo \ {n})

\* The call's outcome and the heap it leaves behind
CoverageCall(observed, net) ==
    LET c == copy(<<net>>, SharedRef)
        pruned_ref == c.ref
        path_nodes == DOMAIN net.kos                            \* 'kos' in data
        removed == {n \in path_nodes : prune(net, n, observed)}
        heap == [c.heap EXCEPT ![pruned_ref] = RemoveAll(@, removed \cap @.nodes)]
        module_kos_present == UNION {net.kos[n] \cap observed : n \in path_nodes \ removed}
        pruned == heap[pruned_ref]
        missing_steps == {n \in pruned.nodes : n.name = "end_step" /\ in_degree(pruned, n) = 0}
        num_steps == pruned.num_steps
        num_steps_present == num_steps - Cardinality(missing_steps) + 1
    IN [heap |-> heap,
        missing |-> {n.arg[1] : n \in missing_steps},
        out |-> IF num_steps = 0
                THEN Raised("ZeroDivisionError")
                ELSE Returned(<<num_steps, num_steps_present,
                                TrueDiv(num_steps_present, num_steps),
                                SortedSet(module_kos_present)>>)]

get_module_coverage(observed, net) == CoverageCall(observed, net).out

-----------------------------------------------------------------------------
(* make_module_coverage_df *)

\* kos_to_genes[ko]: the gene ids whose kegg_id field lists ko, once per listing, in index order
RECURSIVE GenesOf(_, _, _)
GenesOf(df, ko, i) ==
    IF i > Len(df) THEN <<>>
    ELSE SelectSeq([j \in 1..Len(df[i]) |-> IF df[i][j] = ko THEN GeneNames[i] ELSE ""],
                   LAMBDA g : g # "") \o GenesOf(df, ko, i + 1)

kos_to_genes(df) ==
    [ko \in UNION {{df[i][j] : j \in 1..Len(df[i])} : i \in 1..Len(df)} |-> GenesOf(df, ko, 1)]

RECURSIVE Flatten(_, _)
Flatten(module_kos, k2g) ==
    IF module_kos = <<>> THEN <<>>
    ELSE k2g[Head(module_kos)] \o Flatten(Tail(module_kos), k2g)

NoCoverage == [made |-> FALSE, out |-> NoResult, module_genes |-> <<>>]

make_module_coverage_df(df, net) ==
    LET k2g == kos_to_genes(df)
        out == get_module_coverage(DOMAIN k2g, net)
    IN IF out.exc # "none"
       THEN [made |-> FALSE, out |-> out, module_genes |-> <<>>]
       ELSE [made |-> TRUE, out |-> out, module_genes |-> SortedList(Flatten(out.ret[4], k2g))]

-----------------------------------------------------------------------------
(* summarize_rrnas *)

RRNA_TYPES == <<"5S rRNA", "16S rRNA", "23S rRNA">>

\* Counter(frame['type']) for the rows of one genome
Counter(df, genome) ==
    LET rows == {i \in 1..Len(df) : df[i].fasta = genome}
    IN [t \in {df[i].type : i \in rows} |-> Cardinality({i \in rows : df[i].type = t})]

\* the builtin `type`, which the name type denotes inside summarize_rrnas
BuiltinType == [type |-> "type", val |-> "type"]

\* dict.get(key, default): the keys of the Counter are str values
CounterGet(counter, key, default) ==
    IF \E k \in DOMAIN counter : PyEq(PyStr(k), key)
    THEN counter[CHOOSE k \in DOMAIN counter : PyEq(PyStr(k), key)]
    ELSE default

NoFrame == [made |-> FALSE, rows |-> <<>>]

summarize_rrnas(df) ==
    LET genome_rrna_dict == [genome \in {df[i].fasta : i \in 1..Len(df)} |-> Counter(df, genome)]
    IN [made |-> TRUE,
        rows |-> [r \in 1..Len(RRNA_TYPES) |->
                    [gene_id |-> RRNA_TYPES[r],
                     counts |-> [genome \in DOMAIN genome_rrna_dict |->
                                    CounterGet(genome_rrna_dict[genome], BuiltinType, 0)]]]]

-----------------------------------------------------------------------------
(* make_genome_summary *)

FrameColumns == 6    \* len(FRAME_COLUMNS)
NumbersOffset == 7   \* summarized_genomes.columns[7:]

RECURSIVE Sum(_, _)
Sum(f, S) == IF S = {} THEN 0 ELSE LET x == CHOOSE y \in S : TRUE IN f[x] + Sum(f, S \ {x})

NoSummary == [called |-> FALSE, remove_empty_rows |-> FALSE, remove_empty_cols |-> FALSE,
              counts |-> <<>>, rows |-> {}, genome_cols |-> {}]

\* counts[r][g]: the count of summary row r in the g-th genome column of the merged frame.
\* The written table is given by the rows and the genome columns that are kept.
make_genome_summary(counts, remove_empty_rows, remove_empty_cols) ==
    LET all_rows == DOMAIN counts
        all_cols == IF all_rows = {} THEN {} ELSE DOMAIN counts[CHOOSE r \in all_rows : TRUE]
        \* column g of the genomes is column FrameColumns + g - 1 of the frame (0-based)
        numbers_only == {g \in all_cols : FrameColumns + g - 1 >= NumbersOffset}
        head_cols == {g \in all_cols : FrameColumns + g - 1 < NumbersOffset}
        row_sum(r) == Sum(counts[r], numbers_only)
        col_sum(g) == Sum([r \in all_rows |-> counts[r][g]], all_rows)
        good_columns == {g \in numbers_only : col_sum(g) > 0}
    IN [called |-> TRUE,
        remove_empty_rows |-> remove_empty_rows,
        remove_empty_cols |-> remove_empty_cols,
        counts |-> counts,
        rows |-> IF remove_empty_rows THEN {r \in all_rows : row_sum(r) > 0} ELSE all_rows,
        genome_cols |-> IF remove_empty_cols THEN head_cols \cup good_columns ELSE all_cols]

-----------------------------------------------------------------------------
(* Inputs *)

FreeSteps == 0..(MaxStep - 1)        \* step indices of the freely chosen rows
Descriptors == {<<s>> \o a : s \in FreeSteps, a \in AltSuffixes}
FreeRows == [path : Descriptors, ko : FreeIds]

\* module_df of at most MaxRows freely chosen rows
FreeDfs == UNION {{{f[i] : i \in 1..n} : f \in [1..n -> FreeRows]} : n \in 1..MaxRows}

\* module_df with one row per step index 0..n
ChainDfs(n) == {{[path |-> <<s>>, ko |-> f[s]] : s \in 0..n} : f \in [0..n -> Ids]}

ModuleDfs == FreeDfs \cup UNION {ChainDfs(n) : n \in 1..MaxStep}

Genomes == {"bin1", "bin2"}
MaxRrnas == 3           \* rows of the rRNA table
NumSummaryRows == 2     \* rows of the merged summary frame
NumGenomes == 2         \* genome columns of the merged summary frame
MaxCount == 1           \* largest count in a cell of the merged summary frame

RrnaRows == [fasta : Genomes, type : {RRNA_TYPES[i] : i \in 1..Len(RRNA_TYPES)}]
RrnaTables == UNION {[1..n -> RrnaRows] : n \in 0..MaxRrnas}

SummaryCounts == [1..NumSummaryRows -> [1..NumGenomes -> 0..MaxCount]]

CatalogKeys == {"genome_summary_form", "module_step_form", "function_heatmap_form"}

KeggFields == UNION {[1..n -> Ids] : n \in 0..MaxKosPerGene}   \* <<>> is a missing (NaN) field
Annotations == [1..NumGenes -> KeggFields]

-----------------------------------------------------------------------------
(* Actions *)

\* the parts of the state a specification does not exercise
IdleNet ==
    /\ module_df = {}
    /\ module_net = NoNet
    /\ kos = {}
    /\ result = NoResult
    /\ annotation_df = <<>>
    /\ coverage_df = NoCoverage

IdleRun ==
    /\ pc = "idle"
    /\ viral = FALSE
    /\ trna_path = "None"
    /\ rrna_path = "None"
    /\ database_locs = {}
    /\ db_locs = {}
    /\ files_read = {}
    /\ outputs = {}
    /\ exc = "none"
    /\ genome_summary = NoSummary

IdleRrna ==
    /\ rrnas_df = <<>>
    /\ rrna_frame = NoFrame

BuildModuleNet ==
    /\ module_net = NoNet
    /\ module_net' = build_module_net(module_df)
    /\ UNCHANGED <<module_df, kos, result, annotation_df, coverage_df, runVars, rrnaVars>>

GetModuleCoverage(observed) ==
    /\ module_net # NoNet
    /\ LET call == CoverageCall(observed, module_net)
       IN /\ result' = call.out
          /\ module_net' = call.heap[SharedRef]
    /\ kos' = observed
    /\ UNCHANGED <<module_df, annotation_df, coverage_df, runVars, rrnaVars>>

MakeModuleCoverageDf ==
    /\ module_net # NoNet
    /\ coverage_df = NoCoverage
    /\ coverage_df' = make_module_coverage_df(annotation_df, module_net)
    /\ module_net' = CoverageCall(DOMAIN kos_to_genes(annotation_df), module_net).heap[SharedRef]
    /\ UNCHANGED <<module_df, kos, result, annotation_df, runVars, rrnaVars>>

Init ==
    /\ module_df \in ModuleDfs
    /\ module_net = NoNet
    /\ kos = {}
    /\ result = NoResult
    /\ annotation_df = <<>>
    /\ coverage_df = NoCoverage
    /\ IdleRun
    /\ IdleRrna

Next == BuildModuleNet \/ \E observed \in SUBSET Ids : GetModuleCoverage(observed)

Spec == Init /\ [][Next]_vars

InitCoverage ==
    /\ module_df \in ChainDfs(1)
    /\ module_net = NoNet
    /\ kos = {}
    /\ result = NoResult
    /\ annotation_df \in Annotations
    /\ coverage_df = NoCoverage
    /\ IdleRun
    /\ IdleRrna

NextCoverage == BuildModuleNet \/ MakeModuleCoverageDf

SpecCoverage == InitCoverage /\ [][NextCoverage]_vars

-----------------------------------------------------------------------------
(* summarize_rrnas, driven on its own *)

SummarizeRrnas ==
    /\ ~rrna_frame.made
    /\ rrna_frame' = summarize_rrnas(rrnas_df)
    /\ UNCHANGED <<rrnas_df, netVars, runVars>>

InitRrna ==
    /\ rrnas_df \in RrnaTables
    /\ rrna_frame = NoFrame
    /\ IdleNet
    /\ IdleRun

NextRrna == SummarizeRrnas

SpecRrna == InitRrna /\ [][NextRrna]_vars

-----------------------------------------------------------------------------
(* summarize_genomes, one action per statement group *)

Raise(e) ==
    /\ pc' = "raised"
    /\ exc' = e

\* pd.read_csv of an input file: it returns the table or raises
ReadCsv(file, next_pc) ==
    \/ /\ files_read' = files_read \cup {file}
       /\ pc' = next_pc
       /\ UNCHANGED exc
    \/ /\ Raise("FileNotFoundError")
       /\ UNCHANGED files_read

\* annotations = pd.read_csv(input_file, ...)
ReadAnnotations ==
    /\ pc = "read_annotations"
    /\ ReadCsv("annotations", "read_trnas")
    /\ UNCHANGED <<viral, trna_path, rrna_path, database_locs, db_locs, outputs, genome_summary,
                   netVars, rrnaVars>>

\* if trna_path is None: trna_frame = None, else read it
ReadTrnas ==
    /\ pc = "read_trnas"
    /\ IF trna_path = "None"
       THEN pc' = "read_rrnas" /\ UNCHANGED <<files_read, exc>>
       ELSE ReadCsv("trnas", "read_rrnas")
    /\ UNCHANGED <<viral, trna_path, rrna_path, database_locs, db_locs, outputs, genome_summary,
                   netVars, rrnaVars>>

\* if rrna_path is None: rrna_frame = None, else read it
ReadRrnas ==
    /\ pc = "read_rrnas"
    /\ IF rrna_path = "None"
       THEN pc' = "get_database_locs" /\ UNCHANGED <<files_read, exc>>
       ELSE ReadCsv("rrnas", "get_database_locs")
    /\ UNCHANGED <<viral, trna_path, rrna_path, database_locs, db_locs, outputs, genome_summary,
                   netVars, rrnaVars>>

\* db_locs = get_database_locs()
GetDatabaseLocs ==
    /\ pc = "get_database_locs"
    /\ db_locs' = database_locs
    /\ pc' = "check_db_locs"
    /\ UNCHANGED <<viral, trna_path, rrna_path, database_locs, files_read, outputs, exc,
                   genome_summary, netVars, rrnaVars>>

ConfigErrors == {"ValueError: Genome summary form location must be set",
                 "ValueError: Module step form location must be set",
                 "ValueError: Functional heat map form location must be set"}

\* the checks placed after mkdir(output_dir)
CheckDbLocsAfterMkdir ==
    /\ pc = "check_db_locs"
    /\ outputs' = outputs \cup {"output_dir"}
    /\ IF "genome_summary_form" \notin db_locs
       THEN Raise("ValueError: Genome summary form location must be set")
       ELSE IF "module_step_form" \notin db_locs
       THEN Raise("ValueError: Module step form location must be set")
       ELSE IF "function_heatmap_form" \notin db_locs
       THEN Raise("ValueError: Functional heat map form location must be set")
       ELSE pc' = "read_dbs" /\ UNCHANGED exc
    /\ UNCHANGED <<viral, trna_path, rrna_path, database_locs, db_locs, files_read,
                   genome_summary, netVars, rrnaVars>>

\* the three `if ... not in db_locs: raise ValueError(...)` checks, in order
CheckDbLocs ==
    /\ pc = "check_db_locs"
    /\ IF "genome_summary_form" \notin db_locs
       THEN Raise("ValueError: Genome summary form location must be set")
       ELSE IF "module_step_form" \notin db_locs
       THEN Raise("ValueError: Module step form location must be set")
       ELSE IF "function_heatmap_form" \notin db_locs
       THEN Raise("ValueError: Functional heat map form location must be set")
       ELSE pc' = "read_dbs" /\ UNCHANGED exc
    /\ UNCHANGED <<viral, trna_path, rrna_path, database_locs, db_locs, files_read, outputs,
                   genome_summary, netVars, rrnaVars>>

\* the three pd.read_csv(db_locs[...]) calls
ReadDbs ==
    /\ pc = "read_dbs"
    /\ \/ /\ files_read' = files_read \cup CatalogKeys
          /\ pc' = "mkdir"
          /\ UNCHANGED exc
       \/ /\ Raise("FileNotFoundError")
          /\ UNCHANGED files_read
    /\ UNCHANGED <<viral, trna_path, rrna_path, database_locs, db_locs, outputs,
                   genome_summary, netVars, rrnaVars>>

\* mkdir(output_dir): it creates the directory, or raises when the directory exists
Mkdir ==
    /\ pc = "mkdir"
    /\ \/ /\ outputs' = outputs \cup {"output_dir"}
          /\ pc' = "genome_stats"
          /\ UNCHANGED exc
       \/ /\ Raise("FileExistsError")
          /\ UNCHANGED outputs
    /\ UNCHANGED <<viral, trna_path, rrna_path, database_locs, db_locs, files_read,
                   genome_summary, netVars, rrnaVars>>

\* if not viral: make_genome_stats(...).to_csv('genome_stats.tsv')
MakeGenomeStats ==
    /\ pc = "genome_stats"
    /\ outputs' = IF ~viral THEN outputs \cup {"genome_stats.tsv"} ELSE outputs
    /\ pc' = "genome_summary"
    /\ UNCHANGED <<viral, trna_path, rrna_path, database_locs, db_locs, files_read, exc,
                   genome_summary, netVars, rrnaVars>>

\* the flags the call at the end of summarize_genomes hands to make_genome_summary
SummaryFlags(is_viral) == [remove_empty_rows |-> FALSE, remove_empty_cols |-> FALSE]

\* make_genome_summary(annotations, genome_summary_form, genome_summary, trna_frame, rrna_frame,
\*                     groupby_column); counts is the merged frame the inputs give
MakeGenomeSummary ==
    /\ pc = "genome_summary"
    /\ \E counts \in SummaryCounts :
          genome_summary' = make_genome_summary(counts,
                                                SummaryFlags(viral).remove_empty_rows,
                                                SummaryFlags(viral).remove_empty_cols)
    /\ outputs' = outputs \cup {"genome_summary.xlsx"}
    /\ pc' = "heatmaps"
    /\ UNCHANGED <<viral, trna_path, rrna_path, database_locs, db_locs, files_read, exc,
                   netVars, rrnaVars>>

\* the module coverage and functional heatmaps, saved as heatmap.html
MakeHeatmaps ==
    /\ pc = "heatmaps"
    /\ outputs' = outputs \cup {"heatmap.html"}
    /\ pc' = "returned"
    /\ UNCHANGED <<viral, trna_path, rrna_path, database_locs, db_locs, files_read, exc,
                   genome_summary, netVars, rrnaVars>>

InitSummarize ==
    /\ pc = "read_annotations"
    /\ viral \in BOOLEAN
    /\ trna_path \in {"None", "trnas.tsv"}
    /\ rrna_path \in {"None", "rrnas.tsv"}
    /\ database_locs \in SUBSET CatalogKeys
    /\ db_locs = {}
    /\ files_read = {}
    /\ outputs = {}
    /\ exc = "none"
    /\ genome_summary = NoSummary
    /\ IdleNet
    /\ IdleRrna

NextSummarize ==
    \/ ReadAnnotations
    \/ ReadTrnas
    \/ ReadRrnas
    \/ GetDatabaseLocs
    \/ CheckDbLocs
    \/ ReadDbs
    \/ Mkdir
    \/ MakeGenomeStats
    \/ MakeGenomeSummary
    \/ MakeHeatmaps

SpecSummarize == InitSummarize /\ [][NextSummarize]_vars

-----------------------------------------------------------------------------
(* Properties *)

Called == result.exc # "no call"
Built == module_net # NoNet

ScenarioKos == <<"A", "B", "C", "D">>
ScenarioDf == {[path |-> <<s>>, ko |-> ScenarioKos[s + 1]] : s \in 0..3}

\* C1: for the graph of the four paths 0, 1, 2, 3 carrying A, B, C, D, the observed set {A, C}
\* has exactly one missing boundary, end_step_1, and get_module_coverage returns num_steps 3,
\* num_steps_present 3, coverage 1.0 and the matched identifiers [A, C].
C1_ScenarioResult ==
    (module_df = ScenarioDf /\ Called /\ kos = {"A", "C"}) =>
        /\ CoverageCall(kos, module_net).missing = {1}
        /\ result = Returned(<<3, 3, TrueDiv(1, 1), <<"A", "C">>>>)

EveryStepHasPath(df) ==
    LET n == SetMax({StepIndex(p) : p \in Paths(df)})
    IN n >= 1 /\ \A s \in 0..n : \E p \in Paths(df) : StepIndex(p) = s

\* C2: with num_steps >= 1 and a path at every step index 0..num_steps, an observed set that
\* shares no identifier with the module gives num_steps_present = 1 and no matched identifier.
C2_NothingObserved ==
    (Built /\ Called /\ EveryStepHasPath(module_df) /\ kos \cap {r.ko : r \in module_df} = {}) =>
        /\ result.exc = "none"
        /\ result.ret[2] = 1
        /\ result.ret[4] = <<>>

\* C3: in a graph built from descriptors that include step index 0, every path node has
\* in-degree 1 and out-degree 1, 'begin' exists with out-degree >= 1 (each path of step index 0
\* has its inbound edge from 'begin'), and 'end' exists with in-degree >= 1.
C3_GraphShape ==
    (Built /\ \E p \in Paths(module_df) : StepIndex(p) = 0) =>
        /\ \A p \in Paths(module_df) :
              /\ PathNode(p) \in module_net.nodes
              /\ in_degree(module_net, PathNode(p)) = 1
              /\ out_degree(module_net, PathNode(p)) = 1
              /\ StepIndex(p) = 0 => <<Begin, PathNode(p)>> \in module_net.edges
        /\ Begin \in module_net.nodes
        /\ out_degree(module_net, Begin) >= 1
        /\ End \in module_net.nodes
        /\ in_degree(module_net, End) >= 1

\* C4: for a fixed graph with num_steps >= 1 and observed sets K1 \subseteq K2, the call with K2
\* returns num_steps_present and coverage at least as large as the call with K1.
C4_CoverageMonotone ==
    (Built /\ result.exc = "none") =>
        \A K1 \in SUBSET kos :
            LET r1 == get_module_coverage(K1, module_net)
            IN /\ r1.exc = "none"
               /\ result.ret[2] >= r1.ret[2]
               /\ FracGeq(result.ret[3], r1.ret[3])

\* a call whose result is strictly larger than that of a subset of its observed set
C4_Witness ==
    /\ Built
    /\ result.exc = "none"
    /\ \E K1 \in SUBSET kos : get_module_coverage(K1, module_net).ret[2] < result.ret[2]

\* C5: coverage queries leave the shared graph as build_module_net made it (nodes, edges,
\* per-path identifier sets, num_steps), so every call returns what the first call with the
\* same observed set returns.
C5_SharedGraphUnchanged ==
    Built =>
        /\ module_net = build_module_net(module_df)
        /\ Called => result = get_module_coverage(kos, build_module_net(module_df))

\* a call that has pruned path nodes from its private copy
C5_Witness ==
    /\ Built
    /\ Called
    /\ \E n \in DOMAIN module_net.kos : prune(module_net, n, kos)
    /\ \E n \in DOMAIN module_net.kos : ~prune(module_net, n, kos)

StrictlySorted(s) == \A i \in 1..Len(s) - 1 : Rank(s[i]) < Rank(s[i + 1])

\* C6: the gene list make_module_coverage_df emits is sorted and holds each gene at most once.
C6_GenesSortedUnique == coverage_df.made => StrictlySorted(coverage_df.module_genes)

\* C7: viral = True suppresses genome_stats.tsv and runs make_genome_summary with
\* remove_empty_rows and remove_empty_cols on; viral = False writes the statistics table and
\* prunes nothing.
C7_ViralFlag ==
    pc = "returned" =>
        /\ viral => /\ "genome_stats.tsv" \notin outputs
                    /\ genome_summary.remove_empty_rows
                    /\ genome_summary.remove_empty_cols
        /\ ~viral => /\ "genome_stats.tsv" \in outputs
                     /\ ~genome_summary.remove_empty_rows
                     /\ ~genome_summary.remove_empty_cols

ConfigErrorRaised == pc = "raised" /\ exc \in ConfigErrors

\* C8 as stated: when the configuration error is raised, no input file has been read and no
\* output directory or file has been created.
C8_NoIoBeforeConfigError == ConfigErrorRaised => files_read = {} /\ outputs = {}

\* C8 as amended: with a catalog location unset the run never gets past the check; the
\* configuration error is raised before any catalog is read and before any output directory or
\* file is created, and after the annotation table and the given tRNA and rRNA tables are read.
C8_ConfigErrorBeforeCatalogsAndOutput ==
    /\ database_locs # CatalogKeys =>
          /\ pc \in {"read_annotations", "read_trnas", "read_rrnas", "get_database_locs",
                     "check_db_locs", "raised"}
          /\ pc = "raised" => exc \in ConfigErrors \cup {"FileNotFoundError"}
    /\ ConfigErrorRaised =>
          /\ database_locs # CatalogKeys
          /\ outputs = {}
          /\ files_read \cap CatalogKeys = {}
          /\ "annotations" \in files_read
          /\ trna_path # "None" <=> "trnas" \in files_read
          /\ rrna_path # "None" <=> "rrnas" \in files_read

\* the configuration error raised after all three input tables were read
C8_Witness == ConfigErrorRaised /\ files_read = {"annotations", "trnas", "rrnas"}

\* C9: for num_steps = 0 get_module_coverage fails explicitly for every observed set: an error
\* outcome that is a deliberate failure, not a division fault and not a coverage value.
C9_DegenerateFailsExplicitly ==
    (Built /\ Called /\ module_net.num_steps = 0) =>
        /\ result.exc # "none"
        /\ result.exc # "ZeroDivisionError"

\* C10: in the frame of summarize_rrnas the row of rRNA type T holds, in the column of genome G,
\* the number of rows of the rRNA table with grouping column G and type T.
C10_RrnaCounts ==
    rrna_frame.made =>
        \A r \in 1..Len(RRNA_TYPES) :
            \A G \in DOMAIN rrna_frame.rows[r].counts :
                rrna_frame.rows[r].counts[G] =
                    Cardinality({i \in 1..Len(rrnas_df) :
                                    rrnas_df[i].fasta = G /\ rrnas_df[i].type = RRNA_TYPES[r]})

====
